---- MODULE Spec2Model ----
(***************************************************************************)
(* Model of src/packet.rs of enet-rs: the Packet wrapper around an         *)
(* ENetPacket record whose data storage is a leaked Vec<u8>, and the       *)
(* PacketMode flag encoding.                                               *)
(*                                                                         *)
(* The heap is modelled explicitly: `buf` holds the Vec<u8> storages that  *)
(* callers pass to Packet::new, `rec` holds the ENetPacket records.  The   *)
(* ghost counters frees / vecDrops / cbRuns / destroys count how often a   *)
(* storage was deallocated, how often the original Vec's own destructor    *)
(* ran, how often packet_free_callback ran for a record and how often      *)
(* enet_packet_destroy ran for a record.                                   *)
(***************************************************************************)
EXTENDS Integers, Sequences, FiniteSets

VARIABLES
    rec,     \* RecIds -> ENetPacket record (the foreign heap)
    buf,     \* BufIds -> storage of a Vec<u8> handed to Packet::new
    pkts,    \* RecIds -> number of live Packet values whose inner is that record
    raw,     \* raw *mut ENetPacket handles in the crate's hands (not wrapped)
    engine,  \* records the transport engine owns (queued for sending)
    heapOK,  \* FALSE once the allocator was given something it never handed out
    halted,  \* TRUE once the process was stopped by a fatal error
    last     \* the operation that ran last, with its arguments and result

vars == <<rec, buf, pkts, raw, engine, heapOK, halted, last>>

----------------------------------------------------------------------------
(* Bounds of the model *)

MaxRecs  == 1   \* ENetPacket records the engine can allocate (addresses are
                \* not reused, so this also bounds the records ever made)
MaxBufs  == 2   \* Vec<u8> values ever passed to Packet::new
MaxLen   == 2   \* longest byte sequence
MaxSpare == 1   \* largest capacity() - len() of a Vec

RecIds == 1..MaxRecs
BufIds == 1..MaxBufs
NULL   == 0

----------------------------------------------------------------------------
(* enet_sys flag bits (enum _ENetPacketFlag of ENet's enet.h: 1 << 0,     *)
(* 1 << 1, 1 << 2, 1 << 3)                                                 *)

ENET_PACKET_FLAG_RELIABLE            == 1
ENET_PACKET_FLAG_UNSEQUENCED         == 2
ENET_PACKET_FLAG_NO_ALLOCATE         == 4
ENET_PACKET_FLAG_UNRELIABLE_FRAGMENT == 8

RECURSIVE BitOr(_, _)
\* a | b on u32 (bitwise or cannot overflow)
BitOr(a, b) ==
    IF a = 0 THEN b
    ELSE IF b = 0 THEN a
    ELSE (IF (a % 2 = 1) \/ (b % 2 = 1) THEN 1 ELSE 0)
         + 2 * BitOr(a \div 2, b \div 2)

\* (x & bit) != 0 for a single-bit mask
HasBit(x, bit) == (x \div bit) % 2 = 1

----------------------------------------------------------------------------
(* PacketMode *)

PacketMode == {"UnreliableSequenced", "UnreliableUnsequenced",
               "UnreliableUnsequencedUnreliablyFragmented", "ReliableSequenced"}

\* Fault: UnreliableUnsequenced answered as reliable
is_reliable_Faulty(mode) ==
    CASE mode = "UnreliableSequenced" -> FALSE
      [] mode = "UnreliableUnsequenced" -> TRUE
      [] mode = "UnreliableUnsequencedUnreliablyFragmented" -> FALSE
      [] mode = "ReliableSequenced" -> TRUE

is_reliable(mode) ==
    CASE mode = "UnreliableSequenced" -> FALSE
      [] mode = "UnreliableUnsequenced" -> FALSE
      [] mode = "UnreliableUnsequencedUnreliablyFragmented" -> FALSE
      [] mode = "ReliableSequenced" -> TRUE

\* Fault: ReliableSequenced answered as unsequenced
is_sequenced_Faulty(mode) ==
    CASE mode = "UnreliableSequenced" -> TRUE
      [] mode = "UnreliableUnsequenced" -> FALSE
      [] mode = "UnreliableUnsequencedUnreliablyFragmented" -> FALSE
      [] mode = "ReliableSequenced" -> FALSE

is_sequenced(mode) ==
    CASE mode = "UnreliableSequenced" -> TRUE
      [] mode = "UnreliableUnsequenced" -> FALSE
      [] mode = "UnreliableUnsequencedUnreliablyFragmented" -> FALSE
      [] mode = "ReliableSequenced" -> TRUE

\* Fault: the fragmented mode aliases the encoding of UnreliableUnsequenced
to_sys_flags_Aliased(mode) ==
    CASE mode = "UnreliableSequenced" -> 0
      [] mode = "UnreliableUnsequenced" -> ENET_PACKET_FLAG_UNSEQUENCED
      [] mode = "ReliableSequenced" -> ENET_PACKET_FLAG_RELIABLE
      [] mode = "UnreliableUnsequencedUnreliablyFragmented" ->
            ENET_PACKET_FLAG_UNSEQUENCED

\* Fault: the encodings of UnreliableUnsequenced and ReliableSequenced swapped
to_sys_flags_Swapped(mode) ==
    CASE mode = "UnreliableSequenced" -> 0
      [] mode = "UnreliableUnsequenced" -> ENET_PACKET_FLAG_RELIABLE
      [] mode = "ReliableSequenced" -> ENET_PACKET_FLAG_UNSEQUENCED
      [] mode = "UnreliableUnsequencedUnreliablyFragmented" ->
            BitOr(ENET_PACKET_FLAG_UNSEQUENCED,
                  ENET_PACKET_FLAG_UNRELIABLE_FRAGMENT)

to_sys_flags(mode) ==
    CASE mode = "UnreliableSequenced" -> 0
      [] mode = "UnreliableUnsequenced" -> ENET_PACKET_FLAG_UNSEQUENCED
      [] mode = "ReliableSequenced" -> ENET_PACKET_FLAG_RELIABLE
      [] mode = "UnreliableUnsequencedUnreliablyFragmented" ->
            BitOr(ENET_PACKET_FLAG_UNSEQUENCED,
                  ENET_PACKET_FLAG_UNRELIABLE_FRAGMENT)

----------------------------------------------------------------------------
(* The heap: Vec<u8> storages and ENetPacket records *)

\* The byte sequence of length n that callers pass in: <<1, 2, ..., n>>
Input(n) == [i \in 1..n |-> i % 256]

NoBuf == [st |-> "unalloc", bytes |-> <<>>, cap |-> 0, frees |-> 0, vecDrops |-> 0]

\* A Vec<u8> with the given contents and `spare` bytes of unused capacity
MakeVec(bytes, spare) ==
    [st |-> "allocated", bytes |-> bytes, cap |-> Len(bytes) + spare,
     frees |-> 0, vecDrops |-> 0]

\* The allocator takes a storage back: its contents and size are gone (only
\* the ghost counters stay)
Dealloc(v) == [v EXCEPT !.st = "freed", !.bytes = <<>>, !.cap = 0, !.frees = @ + 1]

\* The destructor of the Vec<u8> named `data` runs (it goes out of scope)
VecDrop(v) == [Dealloc(v) EXCEPT !.vecDrops = @ + 1]

\* Fault: std::mem::forget(data) is missing, so the Vec's destructor runs
ForgetData_Missing(v) == VecDrop(v)

\* std::mem::forget(data): the destructor is suppressed, the storage stays
ForgetData(v) == v

\* An ENetPacket: data, dataLength, userData, freeCallback, flags.  `own` is
\* the storage of the engine's own that data points at when it is not a Vec's.
\* Ghost fields: origin (who created the record), vec and input (the storage
\* and the bytes Packet::new was given), cbRuns, destroys, mismatch (the
\* callback ran while dataLength exceeded the capacity in userData).
NoRec == [st |-> "unused", origin |-> "none", data |-> NULL, own |-> <<>>,
          dataLength |-> 0, userData |-> 0, freeCallback |-> "null",
          flags |-> 0, vec |-> NULL, input |-> <<>>, cbRuns |-> 0, destroys |-> 0,
          mismatch |-> FALSE]

\* The lowest unused record / storage, NULL when there is none
NextRec ==
    IF \E r \in RecIds : rec[r].st = "unused"
    THEN CHOOSE r \in RecIds :
            rec[r].st = "unused" /\ \A q \in RecIds : rec[q].st = "unused" => r <= q
    ELSE NULL

NextBuf ==
    IF \E b \in BufIds : buf[b].st = "unalloc"
    THEN CHOOSE b \in BufIds :
            buf[b].st = "unalloc" /\ \A q \in BufIds : buf[q].st = "unalloc" => b <= q
    ELSE NULL

\* enet_packet_create(data, dataLength, flags) when the engine's allocation
\* succeeds: with NO_ALLOCATE the record points at the caller's storage,
\* otherwise it holds a copy of the bytes in storage of the engine's own.
enet_packet_create(ptr, bytes, len, flags) ==
    [st |-> "live", origin |-> "new",
     data |-> IF HasBit(flags, ENET_PACKET_FLAG_NO_ALLOCATE) THEN ptr ELSE NULL,
     own |-> IF HasBit(flags, ENET_PACKET_FLAG_NO_ALLOCATE) THEN <<>>
             ELSE SubSeq(bytes, 1, len),
     dataLength |-> len, userData |-> 0, freeCallback |-> "null",
     flags |-> flags, vec |-> ptr, input |-> SubSeq(bytes, 1, len),
     cbRuns |-> 0, destroys |-> 0, mismatch |-> FALSE]

\* The flag argument Packet::new passes to enet_packet_create
\* Fault: NO_ALLOCATE is not or-ed in
CreateFlags_NoFlag(mode) == to_sys_flags(mode)

CreateFlags(mode) == BitOr(to_sys_flags(mode), ENET_PACKET_FLAG_NO_ALLOCATE)

\* Fault: the length is stashed in userData instead of the capacity
Register_Length(p, capacity) ==
    [p EXCEPT !.userData = p.dataLength, !.freeCallback = "packet_free_callback"]

\* (*res).userData = data.capacity(); (*res).freeCallback = Some(packet_free_callback)
Register(p, capacity) ==
    [p EXCEPT !.userData = capacity, !.freeCallback = "packet_free_callback"]

\* The bytes a record's data pointer points at
Storage(p) == IF p.data \in BufIds THEN buf[p.data].bytes ELSE p.own

\* Fault: the view is one byte short
View_Short(p) == SubSeq(Storage(p), 1, p.dataLength - 1)

\* Fault: the view has the length the packet was built with
View_OriginalLength(p) == SubSeq(Storage(p), 1, Len(p.input))

\* slice::from_raw_parts((*inner).data, (*inner).dataLength)
View(p) == SubSeq(Storage(p), 1, p.dataLength)

\* What a read of a byte outside the initialised storage may yield
Uninit == {0, 255}

\* The views data() can return: dataLength bytes from the data pointer.  Up
\* to the length of the storage they are its bytes; a dataLength beyond it
\* makes the slice cover bytes this layer never initialised, whose values
\* are not determined.
ViewsOf(p) ==
    LET have == Len(Storage(p)) IN
    IF p.dataLength <= have
    THEN {View(p)}
    ELSE {View([p EXCEPT !.dataLength = have]) \o pad :
            pad \in [1..(p.dataLength - have) -> Uninit]}

----------------------------------------------------------------------------
(* Release path *)

\* Fault: the callback does not reconstruct and drop the Vec
packet_free_callback_Leaking(p) == UNCHANGED <<buf, heapOK, halted>>

\* packet_free_callback(packet): drop(Vec::from_raw_parts(data, dataLength,
\* userData)).  Sound when the triple is the one of a live Vec.  The code
\* checks nothing, so anything else is undefined behaviour:
\*  - a length beyond the capacity breaks the precondition of from_raw_parts:
\*    a build with the standard library's precondition checks stops with a
\*    fatal error, any other build drops the Vec, which returns the storage
\*    by its capacity without a word;
\*  - engine-owned storage, a freed storage or a wrong capacity: the storage
\*    may or may not be returned once more and the allocator state is lost.
packet_free_callback(p) ==
    IF /\ p.data \in BufIds
       /\ buf[p.data].st = "allocated"
       /\ p.userData = buf[p.data].cap
    THEN IF p.dataLength <= p.userData
         THEN /\ buf' = [buf EXCEPT ![p.data] = Dealloc(@)]
              /\ UNCHANGED <<heapOK, halted>>
         ELSE \/ /\ halted' = TRUE
                 /\ UNCHANGED <<buf, heapOK>>
              \/ /\ buf' = [buf EXCEPT ![p.data] = Dealloc(@)]
                 /\ UNCHANGED <<heapOK, halted>>
    ELSE /\ heapOK' = FALSE
         /\ halted' = halted
         /\ \/ buf' = buf
            \/ /\ p.data \in BufIds
               /\ buf' = [buf EXCEPT ![p.data] = Dealloc(@)]

\* enet_packet_destroy(packet): runs the record's freeCallback when there is
\* one, frees storage of the engine's own, then frees the record: its fields
\* are gone (only the ghost counters of the record are kept).  When the
\* callback stopped the process the record is left as it was.
enet_packet_destroy(r) ==
    LET p      == rec[r]
        called == p.freeCallback = "packet_free_callback"
        runs   == IF called THEN p.cbRuns + 1 ELSE p.cbRuns
        bad    == p.mismatch \/ (called /\ p.dataLength > p.userData)
    IN
    /\ IF called
       THEN packet_free_callback(p)
       ELSE UNCHANGED <<buf, heapOK, halted>>
    /\ rec' = [rec EXCEPT ![r] =
                 IF halted'
                 THEN [p EXCEPT !.cbRuns = runs, !.mismatch = bad]
                 ELSE [NoRec EXCEPT !.st = "destroyed",
                                    !.origin = p.origin,
                                    !.vec = p.vec,
                                    !.cbRuns = runs,
                                    !.destroys = p.destroys + 1,
                                    !.mismatch = bad]]

----------------------------------------------------------------------------
(* What the last operation was *)

NoLast == [op |-> "none", rec |-> NULL, buf |-> NULL, ok |-> TRUE,
           mode |-> "none", input |-> <<>>, view |-> <<>>,
           sysFlags |-> 0, flags |-> 0, answer |-> FALSE]

Init ==
    /\ rec = [r \in RecIds |-> NoRec]
    /\ buf = [b \in BufIds |-> NoBuf]
    /\ pkts = [r \in RecIds |-> 0]
    /\ raw = {}
    /\ engine = {}
    /\ heapOK = TRUE
    /\ halted = FALSE
    /\ last = NoLast

----------------------------------------------------------------------------
(* Operations of Packet *)

\* Packet::from_sys_packet(inner): one more Packet value whose inner is r
from_sys_packet(r) == [pkts EXCEPT ![r] = @ + 1]

\* Packet::new when enet_packet_create returned the record r: the capacity
\* and the callback are registered, `data` is forgotten, r is wrapped
NewOk(b, r, data, call) ==
    /\ rec' = [rec EXCEPT ![r] =
                 Register(enet_packet_create(b, data.bytes, Len(data.bytes),
                                             call.flags),
                          data.cap)]
    /\ buf' = [buf EXCEPT ![b] = ForgetData(data)]
    /\ pkts' = from_sys_packet(r)
    /\ last' = [call EXCEPT !.ok = TRUE, !.rec = r, !.input = data.bytes]

\* Fault: `data` is forgotten before the null check
NewErr_Leaking(b, data, call) ==
    /\ buf' = [buf EXCEPT ![b] = ForgetData(data)]
    /\ last' = [call EXCEPT !.ok = FALSE, !.input = data.bytes]
    /\ UNCHANGED <<rec, pkts>>

\* Packet::new when enet_packet_create returned null: return Err(Error(0));
\* `data` goes out of scope, so its destructor runs
NewErr(b, data, call) ==
    /\ buf' = [buf EXCEPT ![b] = VecDrop(data)]
    /\ last' = [call EXCEPT !.ok = FALSE, !.input = data.bytes]
    /\ UNCHANGED <<rec, pkts>>

\* Packet::new(data, mode), data = Vec of Input(n) with `spare` spare capacity,
\* stored at b.  `alloc` is whether the engine can allocate a record; it
\* cannot when no record is left.
New(n, spare, mode, alloc) ==
    LET b     == NextBuf
        r     == NextRec
        data  == MakeVec(Input(n), spare)
        call  == [NoLast EXCEPT !.op = "new", !.buf = b, !.mode = mode,
                                !.sysFlags = to_sys_flags(mode),
                                !.flags = CreateFlags(mode)]
    IN
    /\ ~halted
    /\ b # NULL
    /\ IF alloc /\ r # NULL
       THEN NewOk(b, r, data, call)
       ELSE NewErr(b, data, call)
    /\ UNCHANGED <<raw, engine, heapOK, halted>>

\* Fault: wrapping a handle registers the release callback on its record
FromSysPacket_Registering(r) ==
    /\ ~halted
    /\ r \in raw
    /\ raw' = raw \ {r}
    /\ pkts' = from_sys_packet(r)
    /\ rec' = [rec EXCEPT ![r] = Register(@, @.dataLength)]
    /\ last' = [NoLast EXCEPT !.op = "from_sys_packet", !.rec = r]
    /\ UNCHANGED <<buf, engine, heapOK, halted>>

\* Packet::from_sys_packet on a raw handle the crate holds
FromSysPacket(r) ==
    /\ ~halted
    /\ r \in raw
    /\ raw' = raw \ {r}
    /\ pkts' = from_sys_packet(r)
    /\ last' = [NoLast EXCEPT !.op = "from_sys_packet", !.rec = r]
    /\ UNCHANGED <<rec, buf, engine, heapOK, halted>>

\* Fault: std::mem::forget(self) is missing, so the destructor of the Packet
\* runs when into_inner returns
IntoInner_Dropping(r) ==
    /\ ~halted
    /\ pkts[r] > 0
    /\ pkts' = [pkts EXCEPT ![r] = @ - 1]
    /\ raw' = raw \cup {r}
    /\ enet_packet_destroy(r)
    /\ last' = [NoLast EXCEPT !.op = "into_inner", !.rec = r]
    /\ UNCHANGED engine

\* Fault: into_inner borrows instead of consuming: the Packet value stays
IntoInner_Borrowing(r) ==
    /\ ~halted
    /\ pkts[r] > 0
    /\ raw' = raw \cup {r}
    /\ last' = [NoLast EXCEPT !.op = "into_inner", !.rec = r]
    /\ UNCHANGED <<rec, buf, pkts, engine, heapOK, halted>>

\* Packet::into_inner(self): the Packet value is forgotten, its destructor
\* does not run, the raw handle is returned
IntoInner(r) ==
    /\ ~halted
    /\ pkts[r] > 0
    /\ pkts' = [pkts EXCEPT ![r] = @ - 1]
    /\ raw' = raw \cup {r}
    /\ last' = [NoLast EXCEPT !.op = "into_inner", !.rec = r]
    /\ UNCHANGED <<rec, buf, engine, heapOK, halted>>

\* Packet::data(&self)
Data(r) ==
    /\ ~halted
    /\ pkts[r] > 0
    /\ \E v \in ViewsOf(rec[r]) :
          last' = [NoLast EXCEPT !.op = "data", !.rec = r, !.view = v]
    /\ UNCHANGED <<rec, buf, pkts, raw, engine, heapOK, halted>>

\* <Packet as Drop>::drop: a Packet value goes away
Drop(r) ==
    /\ ~halted
    /\ pkts[r] > 0
    /\ pkts' = [pkts EXCEPT ![r] = @ - 1]
    /\ enet_packet_destroy(r)
    /\ last' = [NoLast EXCEPT !.op = "drop", !.rec = r]
    /\ UNCHANGED <<raw, engine>>

\* PacketMode::is_reliable(&self)
IsReliable(mode) ==
    /\ ~halted
    /\ last' = [NoLast EXCEPT !.op = "is_reliable", !.mode = mode,
                              !.answer = is_reliable(mode)]
    /\ UNCHANGED <<rec, buf, pkts, raw, engine, heapOK, halted>>

\* PacketMode::is_sequenced(&self)
IsSequenced(mode) ==
    /\ ~halted
    /\ last' = [NoLast EXCEPT !.op = "is_sequenced", !.mode = mode,
                              !.answer = is_sequenced(mode)]
    /\ UNCHANGED <<rec, buf, pkts, raw, engine, heapOK, halted>>

----------------------------------------------------------------------------
(* The transport engine and the crate's callers of the pub(crate) functions *)

\* A receive event: the engine allocates a record with storage of its own
\* (no NO_ALLOCATE, no freeCallback) holding the received payload and hands
\* the handle to the crate
EngineReceive ==
    LET r == NextRec IN
    /\ ~halted
    /\ r # NULL
    /\ rec' = [rec EXCEPT ![r] =
                 [enet_packet_create(NULL, Input(MaxLen), MaxLen, 0)
                    EXCEPT !.origin = "engine"]]
    /\ raw' = raw \cup {r}
    /\ last' = [NoLast EXCEPT !.op = "engine_receive", !.rec = r]
    /\ UNCHANGED <<buf, pkts, engine, heapOK, halted>>

\* The handle returned by into_inner is given to the engine (a send)
EngineSend(r) ==
    /\ ~halted
    /\ r \in raw
    /\ raw' = raw \ {r}
    /\ engine' = engine \cup {r}
    /\ last' = [NoLast EXCEPT !.op = "engine_send", !.rec = r]
    /\ UNCHANGED <<rec, buf, pkts, heapOK, halted>>

\* The engine is done with a record it owns: enet_packet_destroy, once
EngineDestroy(r) ==
    /\ ~halted
    /\ r \in engine
    /\ engine' = engine \ {r}
    /\ enet_packet_destroy(r)
    /\ last' = [NoLast EXCEPT !.op = "engine_destroy", !.rec = r]
    /\ UNCHANGED <<pkts, raw>>

\* The largest dataLength the engine gives a record: one past the capacity
\* of caller-supplied storage (with NO_ALLOCATE the engine sets the field
\* without looking at the storage), the size of storage of its own
MaxDataLength(p) ==
    IF p.data \in BufIds THEN buf[p.data].cap + 1 ELSE Len(p.own)

\* The engine writes the dataLength field of a live record (framing,
\* fragmentation, a resize); every holder of the handle sees the new value
EngineSetLength(r, n) ==
    /\ ~halted
    /\ rec[r].st = "live"
    /\ n # rec[r].dataLength
    /\ n <= MaxDataLength(rec[r])
    /\ rec' = [rec EXCEPT ![r].dataLength = n]
    /\ last' = [NoLast EXCEPT !.op = "engine_set_length", !.rec = r]
    /\ UNCHANGED <<buf, pkts, raw, engine, heapOK, halted>>

----------------------------------------------------------------------------

\* A Vec<u8> has no spare capacity or MaxSpare bytes of it
Spares == {0, MaxSpare}

\* Packets between the callers and the engine
Next ==
    \/ \E n \in 0..MaxLen, spare \in Spares, mode \in PacketMode,
          alloc \in BOOLEAN : New(n, spare, mode, alloc)
    \/ \E r \in RecIds : FromSysPacket(r)
    \/ \E r \in RecIds : IntoInner(r)
    \/ \E r \in RecIds : Data(r)
    \/ \E r \in RecIds : Drop(r)
    \/ EngineReceive
    \/ \E r \in RecIds : EngineSend(r)
    \/ \E r \in RecIds : EngineDestroy(r)

Spec == Init /\ [][Next]_vars

\* Packets between the callers and an engine that also rewrites dataLength
\* (the mode has no part in it, so one mode is drawn; the engine's allocation
\* fails only when no record is left)
NextEngine ==
    \/ \E n \in 0..MaxLen, spare \in Spares :
          New(n, spare, "ReliableSequenced", TRUE)
    \/ \E r \in RecIds : FromSysPacket(r)
    \/ \E r \in RecIds : IntoInner(r)
    \/ \E r \in RecIds : Data(r)
    \/ \E r \in RecIds : Drop(r)
    \/ EngineReceive
    \/ \E r \in RecIds : EngineSend(r)
    \/ \E r \in RecIds : EngineDestroy(r)
    \/ \E r \in RecIds, n \in 0..(MaxLen + MaxSpare + 1) : EngineSetLength(r, n)

SpecEngine == Init /\ [][NextEngine]_vars

\* The PacketMode functions, applied to every mode, next to Packet::new
NextMode ==
    \/ \E n \in 0..MaxLen, spare \in Spares, mode \in PacketMode,
          alloc \in BOOLEAN : New(n, spare, mode, alloc)
    \/ \E mode \in PacketMode : IsReliable(mode)
    \/ \E mode \in PacketMode : IsSequenced(mode)

SpecMode == Init /\ [][NextMode]_vars

----------------------------------------------------------------------------
(* Properties *)

\* Records created by a successful Packet::new
NewRecs == {r \in RecIds : rec[r].origin = "new"}

\* Storages whose Vec a failed Packet::new was given
ErrBufs == {b \in BufIds : buf[b].st # "unalloc" /\ \A r \in NewRecs : rec[r].vec # b}

\* C1: no double free.  For every record created by a successful Packet::new,
\* whatever sequence of data(), drop, into_inner and one enet_packet_destroy
\* by the engine on a handed-over handle has run, packet_free_callback ran at
\* most once for the record, the destructor of the original Vec never ran,
\* and the storage was returned to the allocator at most once (and nothing
\* else was ever returned to it).
NoDoubleFree ==
    /\ heapOK
    /\ \A r \in NewRecs :
          /\ rec[r].cbRuns <= 1
          /\ rec[r].destroys <= 1
          /\ buf[rec[r].vec].vecDrops = 0
          /\ buf[rec[r].vec].frees <= 1

\* A record of Packet::new that went through into_inner to the engine and
\* was destroyed there: its callback ran and its storage is freed
NoDoubleFreeWitness ==
    /\ last.op = "engine_destroy"
    /\ last.rec \in NewRecs
    /\ rec[last.rec].cbRuns = 1
    /\ buf[rec[last.rec].vec].frees = 1

\* C2: no leak.  For every record created by a successful Packet::new the
\* storage is freed exactly when the record is destroyed; so when no such
\* record is live any more the number of frees of their storages equals the
\* number of successful constructions.
RECURSIVE SumFrees(_)
SumFrees(R) ==
    IF R = {} THEN 0
    ELSE LET r == CHOOSE x \in R : TRUE
         IN buf[rec[r].vec].frees + SumFrees(R \ {r})

NoLeak ==
    /\ \A r \in NewRecs :
          /\ (buf[rec[r].vec].st = "freed") <=> (rec[r].st = "destroyed")
          /\ (buf[rec[r].vec].st = "allocated") <=> (rec[r].st = "live")
          /\ buf[rec[r].vec].frees = rec[r].destroys
    /\ (\A r \in NewRecs : rec[r].st = "destroyed")
          => SumFrees(NewRecs) = Cardinality(NewRecs)

\* A Packet of Packet::new was dropped: record destroyed, storage freed
NoLeakWitness ==
    /\ last.op = "drop"
    /\ last.rec \in NewRecs
    /\ rec[last.rec].st = "destroyed"
    /\ buf[rec[last.rec].vec].st = "freed"
    /\ SumFrees(NewRecs) = Cardinality(NewRecs)

\* C3: into_inner does not run the release path.  Right after into_inner on
\* a Packet built by Packet::new the record is live and never destroyed, its
\* callback has not run, the storage is allocated and no Packet value refers
\* to the record; and right after the engine destroyed the handle it got, the
\* callback has run exactly once and the storage was freed exactly once.
IntoInnerKeepsRecord ==
    /\ (last.op = "into_inner" /\ last.rec \in NewRecs) =>
          /\ rec[last.rec].st = "live"
          /\ rec[last.rec].destroys = 0
          /\ rec[last.rec].cbRuns = 0
          /\ buf[rec[last.rec].vec].st = "allocated"
          /\ buf[rec[last.rec].vec].frees = 0
          /\ pkts[last.rec] = 0
          /\ last.rec \in raw
    /\ (last.op = "engine_destroy" /\ last.rec \in NewRecs) =>
          /\ rec[last.rec].destroys = 1
          /\ rec[last.rec].cbRuns = 1
          /\ buf[rec[last.rec].vec].frees = 1
          /\ pkts[last.rec] = 0

\* into_inner has just run on a Packet built by Packet::new
IntoInnerWitness ==
    /\ last.op = "into_inner"
    /\ last.rec \in NewRecs
    /\ rec[last.rec].freeCallback = "packet_free_callback"

\* Packet::new has just returned Err
NewFailed == last.op = "new" /\ ~last.ok

\* C4: failed construction.  When enet_packet_create returns null,
\* Packet::new returns Err; the call creates no Packet and no record and
\* changes no record (no callback registered, no capacity stashed); the
\* storage of `data` is released exactly once, by the destructor of `data`,
\* and no record ever points at it, so the foreign layer never frees it.
FailedNewReleasesOnce ==
    /\ [](NewFailed =>
            /\ last.rec = NULL
            /\ buf[last.buf].st = "freed"
            /\ buf[last.buf].vecDrops = 1
            /\ buf[last.buf].frees = 1)
    /\ [](\A b \in ErrBufs :
            /\ buf[b].vecDrops = 1
            /\ buf[b].frees = 1
            /\ \A r \in RecIds : rec[r].data # b /\ rec[r].vec # b)
    /\ [][NewFailed' => (rec' = rec /\ pkts' = pkts /\ raw' = raw /\ engine' = engine)]_vars

\* A failed Packet::new on a Vec with spare capacity, its storage released
FailedNewWitness ==
    /\ NewFailed
    /\ last.buf \in ErrBufs
    /\ buf[last.buf].vecDrops = 1
    /\ \A r \in RecIds : rec[r].freeCallback = "null"

\* C5 as stated: when Packet::new has returned Err the caller's storage is
\* still allocated, its contents unchanged, not yet freed.
FailedNewLeavesBufferUsable ==
    NewFailed =>
        /\ buf[last.buf].st = "allocated"
        /\ buf[last.buf].bytes = last.input
        /\ buf[last.buf].frees = 0

\* C5 as amended: Packet::new takes `data` by value, so when it has returned
\* Err the storage is no longer allocated: the destructor of `data` has
\* already run inside Packet::new and returned it to the allocator, once;
\* nothing is left for the caller to use or to drop.
FailedNewConsumesBuffer ==
    NewFailed =>
        /\ buf[last.buf].st = "freed"
        /\ buf[last.buf].bytes = <<>>
        /\ buf[last.buf].frees = 1
        /\ buf[last.buf].vecDrops = 1

\* A failed Packet::new on a non-empty Vec
FailedNewConsumesWitness ==
    /\ NewFailed
    /\ last.input = Input(MaxLen)
    /\ Len(last.input) > 0
    /\ buf[last.buf].st = "freed"

RoundTrip ==
    (last.op = "data" /\ last.rec \in NewRecs) =>
        /\ Len(last.view) = Len(rec[last.rec].input)
        /\ last.view = rec[last.rec].input

\* data() returned the longest input
RoundTripWitness ==
    /\ last.op = "data"
    /\ last.rec \in NewRecs
    /\ MaxLen > 0
    /\ last.view = Input(MaxLen)

\* The flag bits of a value
FlagBits(x) ==
    {f \in {ENET_PACKET_FLAG_RELIABLE, ENET_PACKET_FLAG_UNSEQUENCED,
            ENET_PACKET_FLAG_NO_ALLOCATE, ENET_PACKET_FLAG_UNRELIABLE_FRAGMENT} :
        HasBit(x, f)}

RECURSIVE SumOf(_)
SumOf(S) == IF S = {} THEN 0 ELSE LET f == CHOOSE x \in S : TRUE IN f + SumOf(S \ {f})

\* x consists of exactly the flag bits in S
IsFlags(x, S) == FlagBits(x) = S /\ x = SumOf(S)

\* C8: allocator flags.  In every call of enet_packet_create by Packet::new
\* the flag argument is to_sys_flags(mode) | NO_ALLOCATE: NO_ALLOCATE is set
\* for every mode, UnreliableSequenced passes NO_ALLOCATE alone and the
\* fragmented mode passes UNSEQUENCED, UNRELIABLE_FRAGMENT and NO_ALLOCATE
\* without RELIABLE.
CreateFlagsCorrect ==
    last.op = "new" =>
        /\ FlagBits(last.flags) = FlagBits(last.sysFlags) \cup {ENET_PACKET_FLAG_NO_ALLOCATE}
        /\ HasBit(last.flags, ENET_PACKET_FLAG_NO_ALLOCATE)
        /\ last.mode = "UnreliableSequenced" =>
              IsFlags(last.flags, {ENET_PACKET_FLAG_NO_ALLOCATE})
        /\ last.mode = "UnreliableUnsequencedUnreliablyFragmented" =>
              IsFlags(last.flags, {ENET_PACKET_FLAG_UNSEQUENCED,
                                   ENET_PACKET_FLAG_UNRELIABLE_FRAGMENT,
                                   ENET_PACKET_FLAG_NO_ALLOCATE})
        /\ last.ok => rec[last.rec].flags = last.flags

\* Packet::new([1,2,3], UnreliableUnsequencedUnreliablyFragmented) succeeded
CreateFlagsWitness ==
    /\ last.op = "new"
    /\ last.ok
    /\ last.mode = "UnreliableUnsequencedUnreliablyFragmented"
    /\ ~HasBit(last.flags, ENET_PACKET_FLAG_RELIABLE)

\* The table of section 4.1
WireFlags(mode) ==
    CASE mode = "UnreliableSequenced" -> {}
      [] mode = "UnreliableUnsequenced" -> {ENET_PACKET_FLAG_UNSEQUENCED}
      [] mode = "UnreliableUnsequencedUnreliablyFragmented" ->
            {ENET_PACKET_FLAG_UNSEQUENCED, ENET_PACKET_FLAG_UNRELIABLE_FRAGMENT}
      [] mode = "ReliableSequenced" -> {ENET_PACKET_FLAG_RELIABLE}

\* C9: to_sys_flags is a total four-way mapping: each mode yields exactly
\* the bits of the table, never NO_ALLOCATE, and no two modes yield the same
\* value.
ToSysFlagsTable ==
    /\ last.op = "new" =>
          /\ last.mode \in PacketMode
          /\ IsFlags(last.sysFlags, WireFlags(last.mode))
          /\ ~HasBit(last.sysFlags, ENET_PACKET_FLAG_NO_ALLOCATE)
    /\ \A m1, m2 \in PacketMode :
          m1 # m2 => to_sys_flags(m1) # to_sys_flags(m2)

\* to_sys_flags was applied to the fragmented mode
ToSysFlagsWitness ==
    /\ last.op = "new"
    /\ last.mode = "UnreliableUnsequencedUnreliablyFragmented"
    /\ HasBit(last.sysFlags, ENET_PACKET_FLAG_UNRELIABLE_FRAGMENT)

\* C10: is_reliable() is true exactly for ReliableSequenced, is_sequenced()
\* exactly for UnreliableSequenced and ReliableSequenced, for every mode;
\* and a query changes nothing of the packets' state.
ModeQueries ==
    /\ [](last.op = "is_reliable" =>
            /\ last.mode \in PacketMode
            /\ last.answer = (last.mode = "ReliableSequenced"))
    /\ [](last.op = "is_sequenced" =>
            /\ last.mode \in PacketMode
            /\ last.answer = (last.mode \in {"UnreliableSequenced", "ReliableSequenced"}))
    /\ [][last'.op \in {"is_reliable", "is_sequenced"} =>
            UNCHANGED <<rec, buf, pkts, raw, engine, heapOK, halted>>]_vars

\* is_reliable() answered for an unreliable mode after a Packet was built
ModeQueriesWitness ==
    /\ last.op = "is_reliable"
    /\ last.mode = "UnreliableUnsequenced"
    /\ ~last.answer
    /\ \E r \in RecIds : pkts[r] = 1

\* C11: reliable and unsequenced cannot be built.  No mode answers
\* is_reliable() with true and is_sequenced() with false, no value of
\* to_sys_flags has both RELIABLE and UNSEQUENCED set, and so no call of
\* enet_packet_create by Packet::new (and no record it yields) carries both.
BothBits(x) ==
    HasBit(x, ENET_PACKET_FLAG_RELIABLE) /\ HasBit(x, ENET_PACKET_FLAG_UNSEQUENCED)

NoReliableUnsequenced ==
    /\ \A m \in PacketMode : ~(is_reliable(m) /\ ~is_sequenced(m))
    /\ (last.op = "is_reliable" /\ last.answer) => is_sequenced(last.mode)
    /\ (last.op = "is_sequenced" /\ ~last.answer) => ~is_reliable(last.mode)
    /\ last.op = "new" =>
          /\ last.mode \in PacketMode
          /\ ~BothBits(last.sysFlags)
          /\ ~BothBits(last.flags)
    /\ \A r \in RecIds : ~BothBits(rec[r].flags)

\* A reliable packet was built: RELIABLE is set, UNSEQUENCED is not
NoReliableUnsequencedWitness ==
    /\ last.op = "new"
    /\ last.ok
    /\ last.mode = "ReliableSequenced"
    /\ HasBit(rec[last.rec].flags, ENET_PACKET_FLAG_RELIABLE)

\* C12: no use after free under hand-off.  With the engine destroying, at
\* any time, the records it got through into_inner, every live Packet value
\* refers to a record that is not destroyed and whose storage is not freed;
\* data() never read a destroyed record and the destructor of a Packet never
\* destroyed a record a second time.
NoUseAfterFree ==
    /\ \A r \in RecIds :
          pkts[r] > 0 =>
             /\ rec[r].st = "live"
             /\ r \notin engine
             /\ rec[r].data \in BufIds => buf[rec[r].data].st = "allocated"
    /\ last.op = "data" => rec[last.rec].st = "live"
    /\ last.op = "drop" => rec[last.rec].destroys = 1

\* The engine destroyed a record handed over by into_inner; no Packet is left
NoUseAfterFreeWitness ==
    /\ last.op = "engine_destroy"
    /\ rec[last.rec].st = "destroyed"
    /\ rec[last.rec].origin = "new"
    /\ pkts[last.rec] = 0

\* C13 as stated: when the release callback runs on a record whose dataLength
\* exceeds the capacity in userData, the release path stops with a fatal
\* error and the storage is not reconstructed and freed.
MismatchIsFatal ==
    \A r \in RecIds :
        rec[r].mismatch =>
            /\ halted
            /\ rec[r].st = "live"
            /\ buf[rec[r].vec].st = "allocated"

\* C14: release path by origin.  Dropping a Packet wrapped around a record
\* the engine allocated itself destroys the record exactly once and never
\* invokes packet_free_callback; the callback only ever runs for records
\* created by Packet::new.
ReleaseByOrigin ==
    /\ \A r \in RecIds :
          /\ rec[r].cbRuns > 0 => rec[r].origin = "new"
          /\ rec[r].origin = "engine" =>
                /\ rec[r].cbRuns = 0
                /\ rec[r].destroys <= 1
                /\ rec[r].freeCallback = "null"
    /\ (last.op = "drop" /\ rec[last.rec].origin = "engine") =>
          /\ rec[last.rec].st = "destroyed"
          /\ rec[last.rec].destroys = 1
          /\ heapOK
          /\ \A b \in BufIds : buf[b].frees = 0 \/ b \in ErrBufs
                                  \/ \E q \in NewRecs : rec[q].vec = b

\* A Packet wrapped around a record of the engine's was dropped
ReleaseByOriginWitness ==
    /\ last.op = "drop"
    /\ rec[last.rec].origin = "engine"
    /\ rec[last.rec].destroys = 1
    /\ rec[last.rec].cbRuns = 0

\* C15: registration.  Every live record of a successful Packet::new has
\* packet_free_callback as freeCallback and the capacity of the original Vec
\* in userData, with capacity >= dataLength, and data and dataLength are
\* those of the Vec; from_sys_packet, into_inner and data() change no field
\* of any record and no storage; so the callback never ran on anything but
\* the original (pointer, length, capacity).
Registered ==
    /\ [](\A r \in NewRecs :
            rec[r].st = "live" =>
               /\ rec[r].freeCallback = "packet_free_callback"
               /\ rec[r].data = rec[r].vec
               /\ buf[rec[r].vec].st = "allocated"
               /\ rec[r].userData = buf[rec[r].vec].cap
               /\ rec[r].dataLength = Len(buf[rec[r].vec].bytes)
               /\ rec[r].userData >= rec[r].dataLength
               /\ buf[rec[r].vec].bytes = rec[r].input)
    /\ [](heapOK /\ ~halted /\ \A r \in RecIds : ~rec[r].mismatch)
    /\ [][last'.op \in {"from_sys_packet", "into_inner", "data"} =>
            (rec' = rec /\ buf' = buf)]_vars

\* Packet::new succeeded on a Vec with spare capacity
RegisteredWitness ==
    /\ last.op = "new"
    /\ last.ok
    /\ rec[last.rec].userData > rec[last.rec].dataLength
    /\ rec[last.rec].freeCallback = "packet_free_callback"

\* C16: data() is a read-only view of the record as it is now.  Its length
\* is the record's current dataLength, its bytes are those at the data
\* pointer, and calling it changes no record, no storage and nothing of who
\* owns or has released what.
DataIsCurrentView ==
    /\ [](last.op = "data" =>
            /\ Len(last.view) = rec[last.rec].dataLength
            /\ \A i \in 1..Len(last.view) :
                  i <= Len(Storage(rec[last.rec])) =>
                      last.view[i] = Storage(rec[last.rec])[i])
    /\ [][last'.op = "data" =>
            UNCHANGED <<rec, buf, pkts, raw, engine, heapOK, halted>>]_vars

\* data() after the engine changed dataLength: the view has the new length,
\* which is neither the original length nor the capacity
DataIsCurrentViewWitness ==
    /\ last.op = "data"
    /\ rec[last.rec].origin = "new"
    /\ Len(last.view) = rec[last.rec].dataLength
    /\ Len(last.view) # Len(rec[last.rec].input)
    /\ Len(last.view) # rec[last.rec].userData
    /\ Len(last.view) > 0

\* C17: the mode queries agree with the wire encoding.  For every mode the
\* RELIABLE bit of to_sys_flags is set exactly when is_reliable() is true,
\* the UNSEQUENCED bit exactly when is_sequenced() is false, and
\* UNRELIABLE_FRAGMENT only together with UNSEQUENCED and never with RELIABLE.
QueriesAgreeWithFlags ==
    /\ last.op = "new" =>
          /\ HasBit(last.sysFlags, ENET_PACKET_FLAG_RELIABLE) <=> is_reliable(last.mode)
          /\ HasBit(last.sysFlags, ENET_PACKET_FLAG_UNSEQUENCED) <=> ~is_sequenced(last.mode)
          /\ HasBit(last.sysFlags, ENET_PACKET_FLAG_UNRELIABLE_FRAGMENT) =>
                /\ HasBit(last.sysFlags, ENET_PACKET_FLAG_UNSEQUENCED)
                /\ ~HasBit(last.sysFlags, ENET_PACKET_FLAG_RELIABLE)
    /\ last.op = "is_reliable" =>
          (last.answer <=> HasBit(to_sys_flags(last.mode), ENET_PACKET_FLAG_RELIABLE))
    /\ last.op = "is_sequenced" =>
          (last.answer <=> ~HasBit(to_sys_flags(last.mode), ENET_PACKET_FLAG_UNSEQUENCED))

\* is_sequenced() answered false for the fragmented mode
QueriesAgreeWitness ==
    /\ last.op = "is_sequenced"
    /\ last.mode = "UnreliableUnsequencedUnreliablyFragmented"
    /\ ~last.answer
    /\ HasBit(to_sys_flags(last.mode), ENET_PACKET_FLAG_UNRELIABLE_FRAGMENT)

====
